---- MODULE Spec2Model ----
(***************************************************************************)
(* Model of the vibrating-plate motion controller (safe_drum.SafePlate)    *)
(* driving the two-axis device through the link client's primitives        *)
(* (drum.Vibrating_Plate.angular_go / radial_go / angular_idle /           *)
(* radial_idle).                                                           *)
(*                                                                         *)
(* Name resolution used throughout: safe_drum.py reads a bare name `shape` *)
(* (lines 138, 141, 148, 343, 345, 367, 370) and a bare name `r` (line     *)
(* 341) that no scope defines; they are read here as the constructor's     *)
(* shape (self._shape, line 74) and safe_polar's parameter `radial`.  The  *)
(* underscore primitives (_angular_go, _radial_go, _angular_idle,          *)
(* _radial_idle) are the link client's angular_go, radial_go,              *)
(* angular_idle, radial_idle (drum.py 166-189).  Control flow is kept as   *)
(* written: on a circle the locals rad_delta and ang_first are never       *)
(* assigned (they are set only inside `if shape is "square"`), so line 173 *)
(* raises UnboundLocalError.                                               *)
(***************************************************************************)
EXTENDS Integers, Sequences, FiniteSets, TLC

ANG_MAX_STEPS == 720
ANG_MIN_STEPS == 0
RAD_MAX_STEPS == 10000
RAD_MAX_SAFE == 7300
RAD_MIN_STEPS == 0

(* Granularity of the device's motion: steps an axis advances per device   *)
(* tick.                                                                    *)
RadChunk == 5000
AngChunk == 400

(* Arguments the callers pass. *)
RadTargets == {-1, 0, 7400, 9394, 10001}
AngTargets == {0, 90, 180, 820, -10}
RelRadSteps == {-7400, 7400}
RelAngSteps == {-90, 90}
QueryRadials == {-1, 0, 1, 5000, 7299, 7300, 7301, 9394, 10000, 10001}
QueryAngles == {-45, 0, 45, 90, 180, 405}
Shapes == {"circle", "square"}

VARIABLES
    shape,      \* self._shape
    radial,     \* self._radial  (tracked position)
    angular,    \* self._angular (tracked position)
    dev_r,      \* actual radial position of the device
    dev_a,      \* actual angular position of the device
    rem_r,      \* steps the radial axis still has to execute (signed)
    rem_a,      \* steps the angular axis still has to execute (signed)
    stack,      \* activation records of move_abs, innermost last
    result,     \* how the last top-level call ended
    cur,        \* the top-level call: api, arguments resolved for move_abs
    pre,        \* tracked position when the top-level call started
    repeat,     \* the call repeats the previous, successful, call's arguments
    log,        \* go commands written during the top-level call
    r_seen,     \* r_idle has answered true since the last r_go
    a_seen,     \* a_idle has answered true since the last a_go
    polled,     \* an idle poll was made since the last go command
    ret,        \* last value returned by a safe_polar query
    wire,       \* lines the device has sent that the receive task has not read
    stopped,    \* the transport has stopped producing lines
    queue,      \* self.queue, the response queue
    read_log,   \* every line handle.readline() has returned, in order
    deq_log,    \* every line queue.get() has returned, in order
    written,    \* every command handle.write() has sent, in order
    th,         \* the caller threads: where each is, and the wait it is in
    home,       \* the home() call: where it is, statuses, notices printed
    persisted   \* the position record on disk

motion_vars == <<shape, radial, angular, dev_r, dev_a, rem_r, rem_a, stack, result,
                 cur, pre, repeat, log, r_seen, a_seen, polled, ret>>

link_vars == <<wire, stopped, queue, read_log, deq_log, written, th>>

rest == <<link_vars, home, persisted>>

vars == <<motion_vars, link_vars, home, persisted>>

device == <<dev_r, dev_a, rem_r, rem_a>>
ghosts == <<r_seen, a_seen, polled>>

----------------------------------------------------------------------------
(* Pure helpers *)

Abs(n) == IF n < 0 THEN -n ELSE n

Sign(n) == IF n < 0 THEN -1 ELSE IF n > 0 THEN 1 ELSE 0

SetMin(S) == CHOOSE m \in S : \A x \in S : m <= x

(* floor(squine(a)) for a = 0..90 angular steps, computed from the formula *)
(* of squine: (0.91 + 0.09*cos(2t)^2) * RAD_MAX_SAFE * min(|1/cos t|,     *)
(* |1/sin t|), t = a/ANG_MAX_STEPS * 2*pi.  The callers compare integers   *)
(* with the value or truncate it with int(), so the floor decides every    *)
(* comparison.                                                             *)
SquineTable ==
    << 7300, 7300, 7300, 7300, 7301, 7301, 7302, 7303, 7305, 7306,
       7307, 7309, 7311, 7313, 7316, 7318, 7321, 7324, 7327, 7330,
       7334, 7338, 7342, 7347, 7351, 7357, 7362, 7368, 7374, 7380,
       7387, 7394, 7402, 7410, 7418, 7427, 7437, 7446, 7457, 7468,
       7479, 7491, 7504, 7517, 7531, 7545, 7561, 7577, 7593, 7611,
       7629, 7648, 7668, 7688, 7710, 7732, 7756, 7780, 7806, 7832,
       7860, 7889, 7918, 7949, 7982, 8015, 8050, 8086, 8124, 8163,
       8203, 8245, 8288, 8333, 8380, 8428, 8478, 8530, 8584, 8640,
       8697, 8757, 8818, 8882, 8948, 9016, 9087, 9160, 9235, 9313,
       9394 >>

(* The formula has period a quarter turn (180 steps) and is even.          *)
squine(ang) ==
    LET m == ang % 180
    IN  SquineTable[(IF m <= 90 THEN m ELSE 180 - m) + 1]

(* int(round(ang_steps/2)): Python 3 rounds halves to the even integer.     *)
HalfRounded(ang_steps) ==
    LET q == ang_steps \div 2
    IN  IF ang_steps % 2 = 0 THEN q
        ELSE IF q % 2 = 0 THEN q ELSE q + 1

(* safe_polar without the test against RAD_MIN_STEPS. *)
safe_polarNoMinimum(shp, rad, ang) ==
    IF shp = "square" THEN ~(rad > squine(ang)) ELSE TRUE

(* safe_polar on an already rounded integer angle. *)
safe_polar(shp, rad, ang) ==
    IF shp = "square"
    THEN ~(rad < RAD_MIN_STEPS \/ rad > squine(ang))
    ELSE ~(rad < RAD_MIN_STEPS)

(* np.linspace(a, b, |a-b|+1, dtype=int): every integer from a to b.        *)
linspace(a, b) == IF a <= b THEN a..b ELSE b..a

(* safe_dist of move_abs: np.min(squine(linspace(self._angular, ang_steps, *)
(* ...))), truncated by the int() of the retreat's move_abs.                *)
SafeDist(from_ang, ang_steps) ==
    SetMin({squine(x) : x \in linspace(from_ang, ang_steps)})

(* ang_delta without the wrap to one rotation. *)
AngDeltaNoWrap(ang_steps, from_ang) == ang_steps - from_ang

(* ang_delta taken along the shorter way round. *)
AngDeltaShortest(ang_steps, from_ang) ==
    LET d == (ang_steps % ANG_MAX_STEPS) - from_ang
    IN  IF 2 * d > ANG_MAX_STEPS THEN d - ANG_MAX_STEPS
        ELSE IF 2 * d < -ANG_MAX_STEPS THEN d + ANG_MAX_STEPS
        ELSE d

(* ang_delta of move_abs. *)
AngDelta(ang_steps, from_ang) == (ang_steps % ANG_MAX_STEPS) - from_ang

(* ang_first tested against the wrong limit. *)
AngFirstMaxSteps(rad_steps) == rad_steps > RAD_MAX_STEPS

(* ang_first of move_abs. *)
AngFirst(rad_steps) == rad_steps > RAD_MAX_SAFE

(* retreat of move_abs. *)
Retreat(ang_delta, from_rad, safe_dist) == ang_delta # 0 /\ from_rad > safe_dist

----------------------------------------------------------------------------
(* Activation records *)

NewFrame(rs, as) ==
    [pc |-> "validate", rad_steps |-> rs, ang_steps |-> as,
     ang_delta |-> 0, rad_delta |-> 0, retreat |-> FALSE, ang_first |-> FALSE,
     safe_dist |-> 0, r0 |-> radial, a0 |-> angular]

NoQuery == [asked |-> FALSE, radial |-> 0, angular |-> 0, safe |-> FALSE]

Top == stack[Len(stack)]

Running == Len(stack) > 0

SetTop(f) == [stack EXCEPT ![Len(stack)] = f]

Goto(label) == SetTop([Top EXCEPT !.pc = label])

(* Where control goes once the deltas are known (lines 177, 184). *)
AfterPlan(ad, rd) ==
    IF ad # 0 THEN "ang_go" ELSE IF rd # 0 THEN "rad_go" ELSE "wait_r"

AfterAngular(rd) == IF rd # 0 THEN "rad_go" ELSE "wait_r"

GoEntry(cmd, steps) ==
    [cmd |-> cmd, steps |-> steps, nested |-> Len(stack) > 1,
     target |-> Top.rad_steps, ang_delta |-> Top.ang_delta,
     ang_first |-> Top.ang_first,
     r_busy |-> rem_r # 0, a_busy |-> rem_a # 0,
     r_seen |-> r_seen, a_seen |-> a_seen, polled |-> polled]

----------------------------------------------------------------------------
(* Link client: values *)

(* Caller threads, and the most commands written in one run. *)
MaxWrites == 3
MaxHomes == 2
Callers == {1, 2}

(* Python values: bytes read from the serial line, str literals. *)
Bytes(chars) == [type |-> "bytes", chars |-> chars]

Str(chars) == [type |-> "str", chars |-> chars]

(* a == b of Python 3: a str never equals a bytes object. *)
PyEq(a, b) == a.type = b.type /\ a.chars = b.chars

(* resp[i:j] *)
Slice(resp, i, j) ==
    [type |-> resp.type,
     chars |-> SubSeq(resp.chars, i + 1, IF j < Len(resp.chars) THEN j ELSE Len(resp.chars))]

(* resp.find(str): the lowest index where str occurs in resp, or -1. *)
Find(resp, str) ==
    LET n == Len(str.chars)
        hits == {i \in 0..(Len(resp.chars) - n) :
                    SubSeq(resp.chars, i + 1, i + n) = str.chars}
    IN  IF hits = {} THEN -1 ELSE SetMin(hits)

(* A test that accepts the text anywhere in the line. *)
MatchesAnywhere(resp, str) == Find(resp, str) # -1

(* rc = resp.find(str); if 0 == rc *)
Matches(resp, str) == 0 = Find(resp, str)

(* The literal "ERR:" of wait_for. *)
ERR == Str(<<"E", "R", "R", ":">>)

P_reset == Bytes(<<"r", "e", "s", "e", "t">>)
P_a_idle == Bytes(<<"a", "_", "i", "d", "l", "e">>)
P_r_idle == Bytes(<<"r", "_", "i", "d", "l", "e">>)
P_a_go == Bytes(<<"a", "_", "g", "o">>)
P_r_go == Bytes(<<"r", "_", "g", "o">>)

Prefix(op) ==
    CASE op = "reset" -> P_reset
      [] op = "a_idle" -> P_a_idle
      [] op = "r_idle" -> P_r_idle
      [] op = "a_go" -> P_a_go
      [] op = "r_go" -> P_r_go

(* Lines of the wire protocol. *)
L_reset == Bytes(<<"r", "e", "s", "e", "t">>)
L_a_idle_true == Bytes(<<"a", "_", "i", "d", "l", "e", " ", "t", "r", "u", "e">>)
L_a_idle_false == Bytes(<<"a", "_", "i", "d", "l", "e", " ", "f", "a", "l", "s", "e">>)
L_r_idle_true == Bytes(<<"r", "_", "i", "d", "l", "e", " ", "t", "r", "u", "e">>)
L_a_go == Bytes(<<"a", "_", "g", "o", " ", "5">>)
L_r_go == Bytes(<<"r", "_", "g", "o", " ", "5">>)
L_status == Bytes(<<"s", "t", "a", "t", "u", "s", " ", "o", "k">>)

ErrLine(op) == Bytes(<<"E", "R", "R", ":", " ">> \o Prefix(op).chars)

(* What the device may answer to a command: its reply or an error line; a  *)
(* reset sent while the device is in the middle of a command may go        *)
(* unanswered.                                                              *)
DeviceReplies(op) ==
    CASE op = "reset" -> {<<L_reset>>, << >>}
      [] op = "a_idle" -> {<<L_a_idle_true>>, <<L_a_idle_false>>, <<ErrLine(op)>>}
      [] op = "r_idle" -> {<<L_r_idle_true>>, <<ErrLine(op)>>}
      [] op = "a_go" -> {<<L_a_go>>, <<ErrLine(op)>>}
      [] op = "r_go" -> {<<L_r_go>>, <<ErrLine(op)>>}

Ops == {"a_idle", "r_idle", "a_go", "r_go"}

(* Lines a prior session may have left in the response stream. *)
Backlogs == {<< >>, <<L_status>>, <<L_reset>>, <<ErrLine("reset"), L_a_idle_true>>}

NoRet == [matched |-> FALSE, line |-> Bytes(<< >>)]

(* A caller thread: ctx is "ctor" inside __init__'s handshake, pc is where *)
(* it stands, kind/prefix/timed describe the wait it is in, sent tells     *)
(* that the wait follows a command it wrote, taken are the lines the wait  *)
(* has removed from the queue, timeouts counts the waits that timed out.   *)
Thread(ctx, pc, kind, prefix, timed, sent) ==
    [ctx |-> ctx, pc |-> pc, kind |-> kind, prefix |-> prefix, timed |-> timed,
     sent |-> sent, taken |-> << >>, ret |-> NoRet, timeouts |-> 0]

ReadyThread == Thread("user", "ready", "none", Bytes(<< >>), FALSE, FALSE)

LinkQuiet ==
    /\ wire = << >>
    /\ stopped = FALSE
    /\ queue = << >>
    /\ read_log = << >>
    /\ deq_log = << >>
    /\ written = << >>
    /\ th = [t \in Callers |-> ReadyThread]

HomeQuiet ==
    [pc |-> "idle", r_status |-> FALSE, a_status |-> FALSE, printed |-> {},
     blocked |-> FALSE, acked |-> FALSE, tries |-> 0, calls |-> 0]

(* The caller's thread is not inside home(). *)
HomeFree == home.pc \in {"idle", "done"}

(* The position record on disk; no statement of the program opens, reads   *)
(* or writes a file, so the record stays absent.                            *)
NoRecord == [present |-> FALSE, radial |-> 0, angular |-> 0]

----------------------------------------------------------------------------
MotionInit ==
    /\ shape \in Shapes
    /\ radial = RAD_MIN_STEPS
    /\ angular = ANG_MIN_STEPS
    /\ dev_r = 0
    /\ dev_a = 0
    /\ rem_r = 0
    /\ rem_a = 0
    /\ stack = << >>
    /\ result = "none"
    /\ cur = [api |-> "none", rad |-> 0, ang |-> 0]
    /\ pre = [radial |-> 0, angular |-> 0]
    /\ repeat = FALSE
    /\ log = << >>
    /\ r_seen = TRUE
    /\ a_seen = TRUE
    /\ polled = FALSE
    /\ ret = NoQuery

Init ==
    /\ MotionInit
    /\ LinkQuiet
    /\ home = HomeQuiet
    /\ persisted = NoRecord

(* Entry of a top-level call that resolves to move_abs(rs, as). *)
Enter(api, rs, as) ==
    /\ ~Running
    /\ HomeFree
    /\ stack' = << NewFrame(rs, as) >>
    /\ result' = "running"
    /\ cur' = [api |-> api, rad |-> rs, ang |-> as]
    /\ pre' = [radial |-> radial, angular |-> angular]
    /\ repeat' = (result = "ok" /\ cur.api = "move_abs" /\ api = "move_abs"
                  /\ cur.rad = rs /\ cur.ang = as)
    /\ log' = << >>
    /\ ret' = NoQuery
    /\ UNCHANGED <<shape, radial, angular, device, ghosts, rest>>

move_abs == \E rs \in RadTargets, as \in AngTargets : Enter("move_abs", rs, as)

rad_move_abs == \E s \in RadTargets : Enter("rad_move_abs", s, angular)

ang_move_abs == \E s \in AngTargets : Enter("ang_move_abs", radial, s)

move_rel ==
    \E rs \in RelRadSteps, as \in RelAngSteps :
        Enter("move_rel", radial + rs, angular + as)

rad_move_rel == \E s \in RelRadSteps : Enter("rad_move_rel", radial + s, angular + 0)

ang_move_rel == \E s \in RelAngSteps : Enter("ang_move_rel", radial + 0, angular + s)

(* A raise unwinds every activation record. *)
Raise(err) ==
    /\ stack' = << >>
    /\ result' = err

(* Validation that runs only after the angular command was sent. *)
ValidateAfterGo ==
    /\ Running
    /\ Top.pc = "validate"
    /\ IF safe_polar(shape, Top.rad_steps, HalfRounded(Top.ang_steps))
       THEN stack' = Goto("plan") /\ UNCHANGED <<result, rem_a, log>>
       ELSE /\ rem_a' = rem_a + AngDelta(Top.ang_steps, angular)
            /\ log' = Append(log, GoEntry("a_go", AngDelta(Top.ang_steps, angular)))
            /\ Raise("ValueError")
    /\ UNCHANGED <<shape, radial, angular, dev_r, dev_a, rem_r, cur, pre, repeat,
                   ghosts, ret, rest>>

(* move_abs lines 137-143. *)
Validate ==
    /\ Running
    /\ Top.pc = "validate"
    /\ IF safe_polar(shape, Top.rad_steps, HalfRounded(Top.ang_steps))
       THEN stack' = Goto("plan") /\ UNCHANGED result
       ELSE Raise("ValueError")
    /\ UNCHANGED <<shape, radial, angular, device, cur, pre, repeat, log, ghosts, ret, rest>>

(* move_abs lines 145-173. *)
Plan ==
    /\ Running
    /\ Top.pc = "plan"
    /\ LET ad == AngDelta(Top.ang_steps, angular)
           sd == SafeDist(angular, Top.ang_steps)
           rt == Retreat(ad, radial, sd)
           af == AngFirst(Top.rad_steps)
           rd == Top.rad_steps - radial
           f  == [Top EXCEPT !.ang_delta = ad, !.safe_dist = sd, !.retreat = rt,
                             !.ang_first = af, !.r0 = radial, !.a0 = angular]
       IN  IF shape = "square"
           THEN IF rt
                THEN \* line 168: rad_move_abs(safe_dist) -> move_abs(safe_dist, self._angular)
                     /\ stack' = Append(SetTop([f EXCEPT !.pc = "retreated"]),
                                        NewFrame(sd, angular))
                     /\ UNCHANGED result
                ELSE /\ stack' = SetTop([f EXCEPT !.rad_delta = rd,
                                                  !.pc = AfterPlan(ad, rd)])
                     /\ UNCHANGED result
           ELSE Raise("UnboundLocalError")
    /\ UNCHANGED <<shape, radial, angular, device, cur, pre, repeat, log, ghosts, ret, rest>>

(* rad_delta computed from the radius held before the retreat. *)
AfterRetreatStaleDelta ==
    /\ Running
    /\ Top.pc = "retreated"
    /\ LET rd == Top.rad_steps - Top.r0
       IN  stack' = SetTop([Top EXCEPT !.rad_delta = rd,
                                       !.pc = AfterPlan(Top.ang_delta, rd)])
    /\ UNCHANGED <<shape, radial, angular, device, result, cur, pre, repeat, log,
                   ghosts, ret, rest>>

(* move_abs line 171, after the retreat returned. *)
AfterRetreat ==
    /\ Running
    /\ Top.pc = "retreated"
    /\ LET rd == Top.rad_steps - radial
       IN  stack' = SetTop([Top EXCEPT !.rad_delta = rd,
                                       !.pc = AfterPlan(Top.ang_delta, rd)])
    /\ UNCHANGED <<shape, radial, angular, device, result, cur, pre, repeat, log,
                   ghosts, ret, rest>>

(* move_abs lines 177-178: angular_go writes a_go and reads its echo. *)
AngularGo ==
    /\ Running
    /\ Top.pc = "ang_go"
    /\ rem_a' = rem_a + Top.ang_delta
    /\ log' = Append(log, GoEntry("a_go", Top.ang_delta))
    /\ a_seen' = FALSE
    /\ polled' = FALSE
    /\ stack' = Goto(IF Top.ang_first THEN "ang_wait" ELSE AfterAngular(Top.rad_delta))
    /\ UNCHANGED <<shape, radial, angular, dev_r, dev_a, rem_r, result, cur, pre,
                   repeat, r_seen, ret, rest>>

(* move_abs lines 180-183: while not self._angular_idle(): sleep. *)
AngularFirstWait ==
    /\ Running
    /\ Top.pc = "ang_wait"
    /\ polled' = TRUE
    /\ IF rem_a = 0
       THEN a_seen' = TRUE /\ stack' = Goto(AfterAngular(Top.rad_delta))
       ELSE UNCHANGED <<a_seen, stack>>
    /\ UNCHANGED <<shape, radial, angular, device, result, cur, pre, repeat, log,
                   r_seen, ret, rest>>

(* move_abs lines 184-185: radial_go writes r_go and reads its echo. *)
RadialGo ==
    /\ Running
    /\ Top.pc = "rad_go"
    /\ rem_r' = rem_r + Top.rad_delta
    /\ log' = Append(log, GoEntry("r_go", Top.rad_delta))
    /\ r_seen' = FALSE
    /\ polled' = FALSE
    /\ stack' = Goto("wait_r")
    /\ UNCHANGED <<shape, radial, angular, dev_r, dev_a, rem_a, result, cur, pre,
                   repeat, a_seen, ret, rest>>

(* move_abs line 188, left operand of `or`: self._radial_idle(). *)
PollRadial ==
    /\ Running
    /\ Top.pc = "wait_r"
    /\ polled' = TRUE
    /\ IF rem_r = 0
       THEN r_seen' = TRUE /\ stack' = Goto("commit")
       ELSE UNCHANGED r_seen /\ stack' = Goto("wait_a")
    /\ UNCHANGED <<shape, radial, angular, device, result, cur, pre, repeat, log,
                   a_seen, ret, rest>>

(* move_abs line 188, right operand of `or`: self._angular_idle(); when it *)
(* is false too, line 189 sleeps and the loop polls again.                  *)
PollAngular ==
    /\ Running
    /\ Top.pc = "wait_a"
    /\ polled' = TRUE
    /\ IF rem_a = 0
       THEN a_seen' = TRUE /\ stack' = Goto("commit")
       ELSE UNCHANGED a_seen /\ stack' = Goto("wait_r")
    /\ UNCHANGED <<shape, radial, angular, device, result, cur, pre, repeat, log,
                   r_seen, ret, rest>>

(* A commit that registers the angular change only. *)
CommitAngularOnly ==
    /\ Running
    /\ Top.pc = "commit"
    /\ angular' = angular + Top.ang_delta
    /\ stack' = SubSeq(stack, 1, Len(stack) - 1)
    /\ result' = IF Len(stack) = 1 THEN "ok" ELSE result
    /\ UNCHANGED <<shape, radial, device, cur, pre, repeat, log, ghosts, ret, rest>>

(* move_abs lines 191-194, and the return. *)
Commit ==
    /\ Running
    /\ Top.pc = "commit"
    /\ angular' = angular + Top.ang_delta
    /\ radial' = radial + Top.rad_delta
    /\ stack' = SubSeq(stack, 1, Len(stack) - 1)
    /\ result' = IF Len(stack) = 1 THEN "ok" ELSE result
    /\ UNCHANGED <<shape, device, cur, pre, repeat, log, ghosts, ret, rest>>

(* safe_polar called by the user, with an integer angle. *)
SafePolarQuery ==
    /\ \E r \in QueryRadials, a \in QueryAngles :
          ret' = [asked |-> TRUE, radial |-> r, angular |-> a,
                  safe |-> safe_polar(shape, r, a)]
    /\ UNCHANGED <<shape, radial, angular, device, stack, result, cur, pre, repeat,
                   log, ghosts, rest>>

(* The device: each axis executes the steps it was sent, a chunk at a time  *)
(* (as dummy_drum's radial_go / angular_go count them down), while the     *)
(* caller runs on; that is what the idle polls of the callers observe.     *)
(* Steps sent to an axis that is still moving are added to what it has     *)
(* left to execute.                                                         *)
RadialAxisStep ==
    /\ rem_r # 0
    /\ LET d == Sign(rem_r) * (IF Abs(rem_r) < RadChunk THEN Abs(rem_r) ELSE RadChunk)
       IN  dev_r' = dev_r + d /\ rem_r' = rem_r - d
    /\ UNCHANGED <<shape, radial, angular, dev_a, rem_a, stack, result, cur, pre,
                   repeat, log, ghosts, ret, rest>>

AngularAxisStep ==
    /\ rem_a # 0
    /\ LET d == Sign(rem_a) * (IF Abs(rem_a) < AngChunk THEN Abs(rem_a) ELSE AngChunk)
       IN  dev_a' = dev_a + d /\ rem_a' = rem_a - d
    /\ UNCHANGED <<shape, radial, angular, dev_r, rem_r, stack, result, cur, pre,
                   repeat, log, ghosts, ret, rest>>

Next ==
    \/ move_abs
    \/ rad_move_abs
    \/ ang_move_abs
    \/ move_rel
    \/ rad_move_rel
    \/ ang_move_rel
    \/ Validate
    \/ Plan
    \/ AfterRetreat
    \/ AngularGo
    \/ AngularFirstWait
    \/ RadialGo
    \/ PollRadial
    \/ PollAngular
    \/ Commit
    \/ RadialAxisStep
    \/ AngularAxisStep

Spec == Init /\ [][Next]_vars

(* The safe_polar queries of a user who filters coordinates with it. *)
NextQuery == SafePolarQuery

SpecQuery == Init /\ [][NextQuery]_vars

----------------------------------------------------------------------------
(* Link client (drum.Vibrating_Plate) *)

(* State at drum.py line 44: the receive task runs and __init__ is in its  *)
(* first timeout_for(b"reset", timeout=1).                                  *)
LinkInit ==
    /\ MotionInit
    /\ shape = "square"
    /\ home = HomeQuiet
    /\ persisted = NoRecord
    /\ wire \in Backlogs
    /\ stopped = FALSE
    /\ queue = << >>
    /\ read_log = << >>
    /\ deq_log = << >>
    /\ written = << >>
    /\ th = [t \in Callers |->
               IF t = 1 THEN Thread("ctor", "waiting", "timeout_for", P_reset, TRUE, FALSE)
               ELSE ReadyThread]

Constructed == th[1].ctx = "user"

(* A written command, with the place its reply takes in the stream of      *)
(* lines read from the device (0 when the device sends none).              *)
Sent(op, t, reply) ==
    [op |-> op, by |-> t,
     reply_at |-> IF reply = << >> THEN 0 ELSE Len(read_log) + Len(wire) + 1]

Idle(w) == w.pc \in {"ready", "returned", "raised"}

Took(w, resp) == [w EXCEPT !.taken = Append(w.taken, resp)]

Returned(w, resp) == [Took(w, resp) EXCEPT !.pc = "returned",
                                           !.ret = [matched |-> TRUE, line |-> resp]]

(* A receive task that drops error lines instead of queueing them. *)
readerFiltering ==
    /\ ~stopped
    /\ wire # << >>
    /\ queue' = IF Matches(Head(wire), Bytes(ERR.chars)) THEN queue
                ELSE Append(queue, Head(wire))
    /\ read_log' = Append(read_log, Head(wire))
    /\ wire' = Tail(wire)
    /\ UNCHANGED <<motion_vars, stopped, deq_log, written, th, home, persisted>>

(* reader: str = self.handle.readline(); self.queue.put(str) *)
reader ==
    /\ ~stopped
    /\ wire # << >>
    /\ queue' = Append(queue, Head(wire))
    /\ read_log' = Append(read_log, Head(wire))
    /\ wire' = Tail(wire)
    /\ UNCHANGED <<motion_vars, stopped, deq_log, written, th, home, persisted>>

(* The transport stops producing lines: readline() blocks from now on. *)
Disconnect ==
    /\ ~stopped
    /\ stopped' = TRUE
    /\ UNCHANGED <<motion_vars, wire, queue, read_log, deq_log, written, th, home,
                   persisted>>

(* One turn of timeout_for's loop on the line resp (drum.py 58-63). *)
timeout_for(w, resp) ==
    IF Matches(resp, w.prefix) THEN Returned(w, resp) ELSE Took(w, resp)

(* One turn of wait_for's loop on the line resp (drum.py 71-81). *)
wait_for(w, resp) ==
    IF PyEq(ERR, Slice(resp, 0, 4))
    THEN [Took(w, resp) EXCEPT !.pc = "raised"]
    ELSE IF Matches(resp, w.prefix) THEN Returned(w, resp) ELSE Took(w, resp)

(* queue.get() of a waiting caller returns the head of the queue. *)
Get(t) ==
    /\ th[t].pc = "waiting"
    /\ queue # << >>
    /\ queue' = Tail(queue)
    /\ deq_log' = Append(deq_log, Head(queue))
    /\ th' = [th EXCEPT ![t] = IF th[t].kind = "timeout_for"
                                THEN timeout_for(th[t], Head(queue))
                                ELSE wait_for(th[t], Head(queue))]
    /\ UNCHANGED <<motion_vars, wire, stopped, read_log, written, home, persisted>>

(* queue.get(block=True, timeout=timeout) raises queue.Empty: timeout_for  *)
(* returns False (drum.py 64-66).  The handshake's timeouts are counted    *)
(* against MaxWrites, since each is followed by a write.                    *)
Timeout(t) ==
    /\ th[t].pc = "waiting"
    /\ th[t].kind = "timeout_for"
    /\ queue = << >>
    /\ th[t].ctx = "ctor" => Len(written) < MaxWrites
    /\ th' = [th EXCEPT ![t].pc = "returned", ![t].ret = NoRet,
                        ![t].timeouts = IF th[t].ctx = "ctor" THEN @ + 1 ELSE @]
    /\ UNCHANGED <<motion_vars, wire, stopped, queue, read_log, deq_log, written, home,
                   persisted>>

(* A handshake that waits again without writing the reset command. *)
CtorRetryNoWrite ==
    /\ th[1].ctx = "ctor"
    /\ th[1].pc = "returned"
    /\ ~th[1].ret.matched
    /\ th' = [th EXCEPT ![1].pc = "waiting", ![1].taken = << >>]
    /\ UNCHANGED <<motion_vars, wire, stopped, queue, read_log, deq_log, written, home,
                   persisted>>

(* __init__, drum.py 44-46: timeout_for returned False, so write reset and *)
(* wait again.                                                              *)
CtorRetry ==
    /\ th[1].ctx = "ctor"
    /\ th[1].pc = "returned"
    /\ ~th[1].ret.matched
    /\ \E reply \in DeviceReplies("reset") :
          /\ wire' = wire \o reply
          /\ written' = Append(written, Sent("reset", 1, reply))
    /\ th' = [th EXCEPT ![1].pc = "waiting", ![1].taken = << >>, ![1].sent = TRUE]
    /\ UNCHANGED <<motion_vars, stopped, queue, read_log, deq_log, home, persisted>>

(* __init__, drum.py 44: timeout_for returned a line, the loop ends. *)
CtorDone ==
    /\ th[1].ctx = "ctor"
    /\ th[1].pc = "returned"
    /\ th[1].ret.matched
    /\ th' = [th EXCEPT ![1].ctx = "user"]
    /\ UNCHANGED <<motion_vars, wire, stopped, queue, read_log, deq_log, written, home,
                   persisted>>

(* angular_idle, radial_idle, angular_go, radial_go (drum.py 166-189):     *)
(* write the command, then wait_for its prefix.                             *)
Command(t) ==
    /\ Constructed
    /\ Idle(th[t])
    /\ Len(written) < MaxWrites
    /\ \E op \in Ops :
          /\ \E reply \in DeviceReplies(op) :
                /\ wire' = wire \o reply
                /\ written' = Append(written, Sent(op, t, reply))
          /\ th' = [th EXCEPT ![t] = Thread("user", "waiting", "wait_for", Prefix(op),
                                            FALSE, TRUE)]
    /\ UNCHANGED <<motion_vars, stopped, queue, read_log, deq_log, home, persisted>>

(* A caller uses a wait directly: timeout_for(str, timeout=1) or           *)
(* wait_for(str, timeout=1).                                                *)
UserWait(t) ==
    /\ Constructed
    /\ Idle(th[t])
    /\ \E kind \in {"timeout_for", "wait_for"}, op \in {"a_idle", "r_go"} :
          th' = [th EXCEPT ![t] = Thread("user", "waiting", kind, Prefix(op), TRUE, FALSE)]
    /\ UNCHANGED <<motion_vars, wire, stopped, queue, read_log, deq_log, written, home,
                   persisted>>

(* One caller thread. *)
NextLink ==
    \/ reader
    \/ Disconnect
    \/ Get(1)
    \/ Timeout(1)
    \/ CtorRetry
    \/ CtorDone
    \/ Command(1)
    \/ UserWait(1)

SpecLink == LinkInit /\ [][NextLink]_vars

(* The receive task and the caller are threads the scheduler keeps         *)
(* running, and the clock of a timed get advances.                          *)
SpecLinkFair ==
    /\ SpecLink
    /\ WF_vars(reader)
    /\ WF_vars(Get(1))
    /\ WF_vars(Timeout(1))
    /\ WF_vars(CtorRetry)
    /\ WF_vars(CtorDone)

(* Two caller threads on the same client. *)
NextLink2 ==
    \/ reader
    \/ Disconnect
    \/ CtorRetry
    \/ CtorDone
    \/ \E t \in Callers : Get(t)
    \/ \E t \in Callers : Timeout(t)
    \/ \E t \in Callers : Command(t)
    \/ \E t \in Callers : UserWait(t)

SpecLink2 == LinkInit /\ [][NextLink2]_vars

----------------------------------------------------------------------------
(* Homing: SafePlate.home                                                  *)
(*                                                                          *)
(* home() is called by the constructor and by the user.  The two home      *)
(* primitives are not defined by drum.py; they are taken from the wire     *)
(* protocol: a_home / r_home drive the axis against its limit switch and   *)
(* reply with a boolean success.  A confirmed switch leaves the axis at    *)
(* its zero; an unconfirmed one leaves it where the drive stopped.         *)
radial_home(ok) ==
    /\ dev_r' = IF ok THEN 0 ELSE dev_r
    /\ rem_r' = 0

angular_home(ok) ==
    /\ dev_a' = IF ok THEN 0 ELSE dev_a
    /\ rem_a' = 0

HomeInit ==
    /\ MotionInit
    /\ LinkQuiet
    /\ persisted = NoRecord
    /\ home = [HomeQuiet EXCEPT !.pc = "r_home", !.calls = 1]

HomeCall ==
    /\ ~Running
    /\ HomeFree
    /\ home.calls < MaxHomes
    /\ home' = [HomeQuiet EXCEPT !.pc = "r_home", !.calls = home.calls + 1]
    /\ UNCHANGED <<motion_vars, link_vars, persisted>>

RadialHome ==
    /\ home.pc = "r_home"
    /\ \E ok \in BOOLEAN :
        /\ radial_home(ok)
        /\ home' = [home EXCEPT !.pc = "a_home", !.r_status = ok, !.tries = @ + 1]
    /\ UNCHANGED <<shape, radial, angular, dev_a, rem_a, stack, result, cur, pre,
                   repeat, log, ghosts, ret, link_vars, persisted>>

AngularHome ==
    /\ home.pc = "a_home"
    /\ \E ok \in BOOLEAN :
        /\ angular_home(ok)
        /\ home' = [home EXCEPT !.pc = "report", !.a_status = ok, !.tries = @ + 1]
    /\ UNCHANGED <<shape, radial, angular, dev_r, rem_r, stack, result, cur, pre,
                   repeat, log, ghosts, ret, link_vars, persisted>>

(* The notices home() prints before the banner. *)
Notices(r_status, a_status) ==
    (IF r_status THEN {"Radial Switch Failed."} ELSE {})
        \cup (IF a_status THEN {"Angular Switch Failed."} ELSE {})

HomeReportAlwaysReturns ==
    /\ home.pc = "report"
    /\ radial' = RAD_MIN_STEPS
    /\ angular' = ANG_MIN_STEPS
    /\ home' = [home EXCEPT !.pc = "done",
                            !.printed = IF home.r_status /\ home.a_status
                                        THEN {"Homing Completed"}
                                        ELSE Notices(home.r_status, home.a_status)
                                                 \cup {"Homing Failed"}]
    /\ UNCHANGED <<shape, device, stack, result, cur, pre, repeat, log, ghosts, ret,
                   link_vars, persisted>>

(* Lines 92-107: the tracked position is set to the origin, then either    *)
(* the notices and the banner are printed and input() blocks, or the       *)
(* completion line is printed and home() returns.                          *)
HomeReport ==
    /\ home.pc = "report"
    /\ radial' = RAD_MIN_STEPS
    /\ angular' = ANG_MIN_STEPS
    /\ IF ~(home.r_status /\ home.a_status)
       THEN home' = [home EXCEPT !.pc = "input",
                                 !.printed = Notices(home.r_status, home.a_status)
                                                 \cup {"Homing Failed"},
                                 !.blocked = TRUE]
       ELSE home' = [home EXCEPT !.pc = "done", !.printed = {"Homing Completed"}]
    /\ UNCHANGED <<shape, device, stack, result, cur, pre, repeat, log, ghosts, ret,
                   link_vars, persisted>>

(* The operator presses Enter: input() returns and so does home(). *)
Acknowledge ==
    /\ home.pc = "input"
    /\ home' = [home EXCEPT !.pc = "done", !.blocked = FALSE, !.acked = TRUE]
    /\ UNCHANGED <<motion_vars, link_vars, persisted>>

(* The single-axis moves of a user between two homings.  With one axis     *)
(* moving per call and these targets, move_abs neither retreats nor waits  *)
(* between the axes.                                                        *)
HomeRadTargets == {0, 5000}
HomeAngTargets == {0, 90}

HomeRadMove == \E s \in HomeRadTargets : Enter("rad_move_abs", s, angular)

HomeAngMove == \E s \in HomeAngTargets : Enter("ang_move_abs", radial, s)

NextHome ==
    \/ HomeCall
    \/ RadialHome
    \/ AngularHome
    \/ HomeReport
    \/ Acknowledge
    \/ HomeRadMove
    \/ HomeAngMove
    \/ Validate
    \/ Plan
    \/ AngularGo
    \/ RadialGo
    \/ PollRadial
    \/ PollAngular
    \/ Commit
    \/ RadialAxisStep
    \/ AngularAxisStep

SpecHome == HomeInit /\ [][NextHome]_vars

----------------------------------------------------------------------------
(* Cartesian moves: SafePlate.cart_move_abs                                *)

(* The points a user asks for: on the axes and the diagonals, where        *)
(* np.degrees(np.arctan2(y, x)) is a multiple of 45 degrees.               *)
CartCoords == {-7400, -7000, -5200, 0, 5200, 7000, 7400}
CartPoints ==
    {p \in CartCoords \X CartCoords :
        p[1] = 0 \/ p[2] = 0 \/ Abs(p[1]) = Abs(p[2])}

(* safe_xy: lines 367-372.  np.sqrt(x**2 + y**2) <= RAD_MAX_SAFE is        *)
(* decided by the squares for integer coordinates.                          *)
safe_xy(shp, x, y) ==
    IF shp = "square"
    THEN ~(\E pos \in {x, y} : pos < -RAD_MAX_SAFE \/ pos > RAD_MAX_SAFE)
    ELSE x * x + y * y <= RAD_MAX_SAFE * RAD_MAX_SAFE

(* int(round(r)) for r = np.sqrt(x**2 + y**2): the integer nearest to the  *)
(* root; no integer has its root half way between two integers.  The root  *)
(* lies between max(|x|, |y|) and |x| + |y|, and between (|x| + |y|)/sqrt 2 *)
(* and sqrt 2 * max(|x|, |y|).                                              *)
RoundHypot(x, y) ==
    LET n == x * x + y * y
        sum == Abs(x) + Abs(y)
        max == IF Abs(x) > Abs(y) THEN Abs(x) ELSE Abs(y)
        low == (sum * 7071) \div 10000
        high == (max * 14143) \div 10000 + 1
    IN  CHOOSE r \in (IF low > max THEN low ELSE max)..(IF high < sum THEN high ELSE sum) :
            /\ (r = 0 \/ (2 * r - 1) * (2 * r - 1) <= 4 * n)
            /\ 4 * n < (2 * r + 1) * (2 * r + 1)

(* int(round(theta * 2)) for theta = np.degrees(np.arctan2(y, x)), which   *)
(* lies in (-180, 180]; arctan2(0, 0) is 0.                                 *)
ThetaSteps(x, y) ==
    CASE x = 0 /\ y = 0 -> 0
      [] y = 0 /\ x > 0 -> 0
      [] x = y /\ x > 0 -> 90
      [] x = 0 /\ y > 0 -> 180
      [] x = -y /\ y > 0 -> 270
      [] y = 0 /\ x < 0 -> 360
      [] x = y /\ x < 0 -> -270
      [] x = 0 /\ y < 0 -> -180
      [] x = -y /\ y < 0 -> -90

(* cart_move_abs lines 279-294: the range test raises, or the point is     *)
(* converted and handed to move_abs.                                        *)
CartEnter(x, y) ==
    /\ ~Running
    /\ HomeFree
    /\ cur' = [api |-> "cart_move_abs", rad |-> RoundHypot(x, y),
               ang |-> ThetaSteps(x, y), x |-> x, y |-> y]
    /\ IF safe_xy(shape, x, y)
       THEN /\ stack' = << NewFrame(cur'.rad, cur'.ang) >>
            /\ result' = "running"
       ELSE /\ stack' = << >>
            /\ result' = "ValueError"
    /\ pre' = [radial |-> radial, angular |-> angular]
    /\ repeat' = FALSE
    /\ log' = << >>
    /\ ret' = NoQuery
    /\ UNCHANGED <<shape, radial, angular, device, ghosts, rest>>

cart_move_abs == \E p \in CartPoints : CartEnter(p[1], p[2])

NextCart ==
    \/ cart_move_abs
    \/ Validate
    \/ Plan
    \/ AfterRetreat
    \/ AngularGo
    \/ AngularFirstWait
    \/ RadialGo
    \/ PollRadial
    \/ PollAngular
    \/ Commit
    \/ RadialAxisStep
    \/ AngularAxisStep

SpecCart == Init /\ [][NextCart]_vars

----------------------------------------------------------------------------
(* The raw driver's go_and_wait: Vibrating_Plate.go_and_wait               *)

(* Step counts a user of the raw driver asks for, and what the axes may    *)
(* still have to execute when the first call is made.                       *)
GoAngSteps == {-90, 0, 90}
GoRadSteps == {-5000, 0, 5000}
GoAngLeft == {0, 500}
GoRadLeft == {0, 7400}

GoInit ==
    /\ shape \in Shapes
    /\ radial = RAD_MIN_STEPS
    /\ angular = ANG_MIN_STEPS
    /\ dev_r = 0
    /\ dev_a = 0
    /\ rem_r \in GoRadLeft
    /\ rem_a \in GoAngLeft
    /\ stack = << >>
    /\ result = "none"
    /\ cur = [api |-> "none", rad |-> 0, ang |-> 0]
    /\ pre = [radial |-> 0, angular |-> 0]
    /\ repeat = FALSE
    /\ log = << >>
    /\ r_seen = FALSE
    /\ a_seen = FALSE
    /\ polled = FALSE
    /\ ret = NoQuery
    /\ LinkQuiet
    /\ home = HomeQuiet
    /\ persisted = NoRecord

(* go_and_wait(angular, radial) is entered; the user keeps the axes within *)
(* a turn and within the rail.                                              *)
go_and_wait ==
    \E as \in GoAngSteps, rs \in GoRadSteps :
        /\ ~Running
        /\ HomeFree
        /\ Abs(dev_a + rem_a + as) <= ANG_MAX_STEPS
        /\ dev_r + rem_r + rs >= RAD_MIN_STEPS
        /\ dev_r + rem_r + rs <= RAD_MAX_STEPS
        /\ stack' = << [NewFrame(rs, as) EXCEPT !.pc = "before_a"] >>
        /\ result' = "running"
        /\ cur' = [api |-> "go_and_wait", rad |-> rs, ang |-> as]
        /\ log' = << >>
        /\ r_seen' = FALSE
        /\ a_seen' = FALSE
        /\ polled' = FALSE
        /\ UNCHANGED <<shape, radial, angular, device, pre, repeat, ret, rest>>

(* Where a loop `while not (angular_idle() and radial_idle())` goes on. *)
GoLoopExit(pc) == IF pc \in {"before_a", "before_r"} THEN "a_go" ELSE "return"
GoLoopRadial(pc) == IF pc = "before_a" THEN "before_r" ELSE "after_r"
GoLoopAgain(pc) == IF pc = "before_r" THEN "before_a" ELSE "after_a"

(* A loop that ends as soon as the angular axis reports idle. *)
GoPollAngularOnly ==
    /\ Running
    /\ Top.pc \in {"before_a", "after_a"}
    /\ polled' = TRUE
    /\ r_seen' = FALSE
    /\ a_seen' = (rem_a = 0)
    /\ stack' = Goto(IF rem_a = 0 THEN GoLoopExit(Top.pc) ELSE Top.pc)
    /\ UNCHANGED <<shape, radial, angular, device, result, cur, pre, repeat, log,
                   ret, rest>>

(* angular_idle() at the head of the loop condition: a new poll starts. *)
GoPollAngular ==
    /\ Running
    /\ Top.pc \in {"before_a", "after_a"}
    /\ polled' = TRUE
    /\ r_seen' = FALSE
    /\ a_seen' = (rem_a = 0)
    /\ stack' = Goto(IF rem_a = 0 THEN GoLoopRadial(Top.pc) ELSE Top.pc)
    /\ UNCHANGED <<shape, radial, angular, device, result, cur, pre, repeat, log,
                   ret, rest>>

(* radial_idle(), evaluated when angular_idle() returned True. *)
GoPollRadial ==
    /\ Running
    /\ Top.pc \in {"before_r", "after_r"}
    /\ r_seen' = (rem_r = 0)
    /\ stack' = Goto(IF rem_r = 0 THEN GoLoopExit(Top.pc) ELSE GoLoopAgain(Top.pc))
    /\ UNCHANGED <<shape, radial, angular, device, result, cur, pre, repeat, log,
                   a_seen, polled, ret, rest>>

(* if (angular != 0): self.angular_go(angular) *)
GoAngular ==
    /\ Running
    /\ Top.pc = "a_go"
    /\ IF Top.ang_steps # 0
       THEN /\ rem_a' = rem_a + Top.ang_steps
            /\ log' = Append(log, GoEntry("a_go", Top.ang_steps))
       ELSE UNCHANGED <<rem_a, log>>
    /\ stack' = Goto("r_go")
    /\ UNCHANGED <<shape, radial, angular, dev_r, dev_a, rem_r, result, cur, pre,
                   repeat, ghosts, ret, rest>>

(* if (radial != 0): self.radial_go(radial) *)
GoRadial ==
    /\ Running
    /\ Top.pc = "r_go"
    /\ IF Top.rad_steps # 0
       THEN /\ rem_r' = rem_r + Top.rad_steps
            /\ log' = Append(log, GoEntry("r_go", Top.rad_steps))
       ELSE UNCHANGED <<rem_r, log>>
    /\ stack' = Goto("after_a")
    /\ r_seen' = FALSE
    /\ a_seen' = FALSE
    /\ polled' = FALSE
    /\ UNCHANGED <<shape, radial, angular, dev_r, dev_a, rem_a, result, cur, pre,
                   repeat, ret, rest>>

(* return True *)
GoReturn ==
    /\ Running
    /\ Top.pc = "return"
    /\ stack' = << >>
    /\ result' = "ok"
    /\ UNCHANGED <<shape, radial, angular, device, cur, pre, repeat, log, ghosts,
                   ret, rest>>

NextGo ==
    \/ go_and_wait
    \/ GoPollAngular
    \/ GoPollRadial
    \/ GoAngular
    \/ GoRadial
    \/ GoReturn
    \/ RadialAxisStep
    \/ AngularAxisStep

SpecGo == GoInit /\ [][NextGo]_vars

----------------------------------------------------------------------------
(* Properties *)

RECURSIVE SumSteps(_, _)
SumSteps(entries, cmd) ==
    IF entries = << >> THEN 0
    ELSE (IF Head(entries).cmd = cmd THEN Head(entries).steps ELSE 0)
         + SumSteps(Tail(entries), cmd)

(* The rejection rule as documented: outside [0, RAD_MAX_STEPS], or on a   *)
(* square beyond the envelope at the destination angle in steps.           *)
ShouldReject(rs, as) ==
    \/ rs < RAD_MIN_STEPS
    \/ rs > RAD_MAX_STEPS
    \/ (shape = "square" /\ rs > squine(as))

(* C1: on a square platform the device's actual radial position never     *)
(* exceeds squine(actual angular position), at rest or in motion.          *)
C1_WithinEnvelope == shape = "square" => dev_r <= squine(dev_a)

(* C2: move_abs raises ValueError exactly when rad_steps is outside        *)
(* [0, RAD_MAX_STEPS] or, on a square, exceeds squine(ang_steps); a target  *)
(* on the envelope of its own angle is accepted.                            *)
C2_RejectsExactly ==
    /\ result = "ValueError" => ShouldReject(cur.rad, cur.ang)
    /\ (Len(stack) = 1 /\ Top.pc # "validate")
          => ~ShouldReject(Top.rad_steps, Top.ang_steps)

(* C3: a rejected move_abs has written no a_go or r_go and leaves the      *)
(* tracked position as it was before the call.                              *)
C3_RejectLeavesNoTrace ==
    result = "ValueError"
       => log = << >> /\ radial = pre.radial /\ angular = pre.angular

C3_Witness ==
    /\ result = "ValueError"
    /\ shape = "square"
    /\ cur.api = "move_abs"
    /\ cur.rad = 9394
    /\ cur.ang = 90
    /\ radial = 7400

(* C4: on a circle, for r in [0, RAD_MAX_STEPS] and any angle,             *)
(* safe_polar(r, angle) is true iff r <= RAD_MAX_SAFE.                      *)
C4_CircleSafeIff ==
    (shape = "circle" /\ ret.asked /\ ret.radial \in 0..RAD_MAX_STEPS)
       => (ret.safe <=> ret.radial <= RAD_MAX_SAFE)

(* C5: after a retreat the a_go is written only once the radial axis has   *)
(* been observed idle, never while it still executes the retreat.           *)
C5_RetreatIdleBeforeRotate ==
    \A i \in 1..Len(log) :
        (i > 1 /\ log[i].cmd = "a_go" /\ log[i-1].cmd = "r_go" /\ log[i-1].nested)
           => log[i].r_seen /\ ~log[i].r_busy

(* C6: on a square, for a nonzero angular delta the envelope minimum       *)
(* compared with the current radius is the minimum over the steps the axis *)
(* passes through, from the current position to current + ang_delta, also  *)
(* for targets wrapped by the modulo.                                       *)
C6_MinOverTraversed ==
    \A i \in 1..Len(stack) :
        (shape = "square" /\ stack[i].pc \notin {"validate", "plan"}
                          /\ stack[i].ang_delta # 0)
           => stack[i].safe_dist =
                 SetMin({squine(x) :
                           x \in linspace(stack[i].a0, stack[i].a0 + stack[i].ang_delta)})

(* C7: when the radial target exceeds RAD_MAX_SAFE and the angle changes,  *)
(* the final r_go is written only after the angular axis reported idle     *)
(* following a_go; otherwise r_go follows a_go with no idle poll between.   *)
C7_AngleFirstOrdering ==
    \A i \in 1..Len(log) :
        (i > 1 /\ log[i].cmd = "r_go" /\ ~log[i].nested /\ log[i-1].cmd = "a_go")
           => IF log[i].target > RAD_MAX_SAFE
              THEN log[i].a_seen /\ ~log[i].a_busy
              ELSE ~log[i].polled

C7_Witness ==
    /\ Len(log) = 2
    /\ log[1].cmd = "a_go"
    /\ log[2].cmd = "r_go"
    /\ log[2].target > RAD_MAX_SAFE
    /\ log[2].polled
    /\ log[2].a_seen

(* C8: move_abs commits and returns only after both the radial and the     *)
(* angular axis have reported idle.                                         *)
C8_BothIdleBeforeCommit ==
    \A i \in 1..Len(stack) : stack[i].pc = "commit" => r_seen /\ a_seen

(* C9: move_abs(r, a) issued again right after it succeeded writes no go   *)
(* command in the second call.                                              *)
C9_RepeatWritesNothing == repeat => log = << >>

C9_Witness ==
    /\ repeat
    /\ result = "ok"
    /\ cur.rad = 7400
    /\ cur.ang = 820

StartsWith(line, prefix) ==
    /\ Len(prefix.chars) <= Len(line.chars)
    /\ SubSeq(line.chars, 1, Len(prefix.chars)) = prefix.chars

IsSuffix(a, b) ==
    /\ Len(a) <= Len(b)
    /\ SubSeq(b, Len(b) - Len(a) + 1, Len(b)) = a

(* C11: a wait removes lines from the queue in order, discards every line *)
(* that does not start with the prefix and returns the first line that    *)
(* does; an unrelated line followed by a matching one gives one discard.   *)
C11_WaitReturnsFirstMatch ==
    LET w == th[1]
        n == Len(w.taken)
    IN  /\ IsSuffix(w.taken, deq_log)
        /\ w.pc = "waiting" => \A i \in 1..n : ~StartsWith(w.taken[i], w.prefix)
        /\ (w.pc = "returned" /\ w.ret.matched)
              => /\ n >= 1
                 /\ w.ret.line = w.taken[n]
                 /\ StartsWith(w.taken[n], w.prefix)
                 /\ \A i \in 1..(n - 1) : ~StartsWith(w.taken[i], w.prefix)

C11_Witness ==
    /\ th[1].kind = "wait_for"
    /\ th[1].pc = "returned"
    /\ th[1].ret.matched
    /\ Len(th[1].taken) = 2
    /\ ~StartsWith(th[1].taken[1], th[1].prefix)
    /\ th[1].ret.line = th[1].taken[2]

(* C12: a wait that dequeues a line beginning with "ERR:" raises at once  *)
(* instead of discarding the line and waiting on.                           *)
C12_ErrLineRaises ==
    \A i \in 1..Len(th[1].taken) :
        StartsWith(th[1].taken[i], Bytes(ERR.chars)) => th[1].pc = "raised"

(* C13: a wait given a timeout (timeout_for or wait_for) eventually       *)
(* returns the no-match result once the transport has stopped and no       *)
(* matching line is left.  The handshake's own waits are those of C14.      *)
TimedWaitStarved ==
    /\ th[1].ctx = "user"
    /\ th[1].pc = "waiting"
    /\ th[1].timed
    /\ stopped
    /\ \A i \in 1..Len(queue) : ~StartsWith(queue[i], th[1].prefix)

NoMatchReturned == th[1].pc = "returned" /\ ~th[1].ret.matched

C13_TimedWaitReturns == TimedWaitStarved ~> NoMatchReturned

(* C14: the handshake completes only once a line starting with "reset"    *)
(* was dequeued; every timed-out wait is followed by one more reset        *)
(* command; and a reset acknowledgment on the queue ends the handshake.     *)
HandshakeSafe ==
    /\ Constructed => \E i \in 1..Len(deq_log) : StartsWith(deq_log[i], P_reset)
    /\ (th[1].ctx = "ctor" /\ th[1].pc = "waiting")
          => /\ Len(written) = th[1].timeouts
             /\ \A i \in 1..Len(deq_log) : ~StartsWith(deq_log[i], P_reset)
    /\ (th[1].ctx = "ctor" /\ th[1].pc = "returned" /\ ~th[1].ret.matched)
          => Len(written) + 1 = th[1].timeouts
    /\ \A i \in 1..Len(written) : th[1].ctx = "ctor" => written[i].op = "reset"

ResetAcknowledged ==
    th[1].ctx = "ctor" /\ \E i \in 1..Len(queue) : StartsWith(queue[i], P_reset)

C14_Handshake == []HandshakeSafe /\ (ResetAcknowledged ~> Constructed)

C14_Witness ==
    /\ Constructed
    /\ th[1].kind = "timeout_for"
    /\ th[1].timeouts = 2
    /\ Len(written) = 2
    /\ Len(th[1].taken) = 1

(* C15: every line read from the transport is queued once, unfiltered,    *)
(* and the lines dequeued are a prefix of the lines read: none lost,       *)
(* duplicated or reordered.                                                 *)
C15_QueueFifo == read_log = deq_log \o queue

C15_Witness ==
    /\ Len(deq_log) >= 3
    /\ queue # << >>
    /\ th[1].taken # << >>
    /\ th[2].taken # << >>

(* C16: with two caller threads at most one send-and-wait is outstanding  *)
(* at any time.                                                             *)
C16_OneOutstanding ==
    Cardinality({t \in Callers : th[t].pc = "waiting" /\ th[t].sent}) <= 1

(* C17: home() returns without an operator acknowledgment only if both     *)
(* home commands reported success; if either axis did not confirm its      *)
(* switch, the warning is printed and home() blocks on the operator's      *)
(* input before it returns; each axis is commanded once per call, never    *)
(* again by home() itself.                                                  *)
C17_HomeGate ==
    /\ (home.pc = "done" /\ ~home.acked) => (home.r_status /\ home.a_status)
    /\ (home.pc \in {"input", "done"} /\ ~(home.r_status /\ home.a_status))
          => /\ "Homing Failed" \in home.printed
             /\ (home.pc = "input" => home.blocked)
             /\ (home.pc = "done" => home.acked)
    /\ home.tries <= 2
    /\ (home.pc \in {"report", "input", "done"} => home.tries = 2)

C17_Witness ==
    /\ home.pc = "done"
    /\ home.acked
    /\ home.r_status
    /\ ~home.a_status
    /\ radial = RAD_MIN_STEPS
    /\ dev_a # 0

(* C18: after every move that completes successfully the persisted         *)
(* position record exists and equals the tracked (radial, angular)         *)
(* position the call returned with.                                         *)
C18_PersistedMatchesTracked ==
    result = "ok" =>
        persisted = [present |-> TRUE, radial |-> radial, angular |-> angular]

(* C19: on a square platform a finished cart_move_abs(x, y) has raised     *)
(* ValueError exactly when x or y lies outside [-RAD_MAX_SAFE,             *)
(* RAD_MAX_SAFE]; every other point was moved to without error.            *)
C19_CartRaisesIffOutside ==
    (shape = "square" /\ cur.api = "cart_move_abs" /\ result # "running") =>
        /\ result = "ValueError" <=>
              \E pos \in {cur.x, cur.y} : pos < -RAD_MAX_SAFE \/ pos > RAD_MAX_SAFE
        /\ result \in {"ok", "ValueError"}

(* C20: in every reachable state the tracked position satisfies            *)
(* radial >= 0 and 0 <= angular < ANG_MAX_STEPS, whatever moves were       *)
(* accepted or rejected, negative targets and targets of a full turn or    *)
(* more included.                                                           *)
C20_TrackedInRange ==
    /\ radial >= 0
    /\ angular >= 0
    /\ angular < ANG_MAX_STEPS

C20_Witness ==
    /\ result = "ok"
    /\ cur.api = "move_abs"
    /\ cur.ang = -10
    /\ angular = 710
    /\ pre.angular = 100

(* C21: every a_go written by move_abs carries fewer than ANG_MAX_STEPS    *)
(* steps in magnitude, and the count is the fixed-direction value          *)
(* (ang_steps mod ANG_MAX_STEPS) - current, not the shorter way round.     *)
C21_AngularGoBelowFullTurn ==
    \A i \in 1..Len(log) :
        log[i].cmd = "a_go" =>
            /\ Abs(log[i].steps) < ANG_MAX_STEPS
            /\ log[i].steps = (cur.ang % ANG_MAX_STEPS) - pre.angular

C21_Witness ==
    \E i \in 1..Len(log) :
        /\ log[i].cmd = "a_go"
        /\ 2 * Abs(log[i].steps) > ANG_MAX_STEPS
        /\ pre.angular # 0

(* C22: a single-axis radial move writes no a_go and leaves the tracked    *)
(* angular position unchanged; a single-axis angular move has, on return,  *)
(* the tracked radial position it was called with, also after a retreat.   *)
C22_SingleAxisFrame ==
    /\ cur.api \in {"rad_move_abs", "rad_move_rel"} =>
          /\ \A i \in 1..Len(log) : log[i].cmd # "a_go"
          /\ angular = pre.angular
    /\ (cur.api \in {"ang_move_abs", "ang_move_rel"} /\ result # "running") =>
          radial = pre.radial

C22_Witness ==
    /\ cur.api = "ang_move_abs"
    /\ result = "ok"
    /\ \E i \in 1..Len(log) : log[i].nested /\ log[i].cmd = "r_go"
    /\ radial = pre.radial
    /\ angular # pre.angular

(* C23: with a single caller thread at most one written command is still   *)
(* awaiting its reply: the replies of all written commands but the last    *)
(* have been dequeued by the caller.                                        *)
AwaitingReply == {i \in 1..Len(written) : written[i].reply_at > Len(deq_log)}

C23_OneAwaitingReply == Cardinality(AwaitingReply) <= 1

(* C24: the "reset" line that ends the constructor's handshake answers a   *)
(* reset command this constructor wrote: once the handshake is over, a     *)
(* reset has been written and its reply has been dequeued.                  *)
C24_ResetWrittenBeforeDone ==
    Constructed =>
        \E i \in 1..Len(written) :
            /\ written[i].op = "reset"
            /\ written[i].reply_at # 0
            /\ written[i].reply_at <= Len(deq_log)

(* C25: go_and_wait writes no go command until a poll has found both axes  *)
(* idle, writes a_go before r_go and neither for a step count of 0, and    *)
(* returns only after a later poll in which both axes reported idle.       *)
C25_GoAndWait ==
    cur.api = "go_and_wait" =>
        /\ \A i \in 1..Len(log) :
              /\ log[i].steps # 0
              /\ log[i].a_seen /\ log[i].r_seen
              /\ log[i].cmd = "a_go" => (i = 1 /\ ~log[i].a_busy /\ ~log[i].r_busy)
              /\ log[i].cmd = "r_go" => ~log[i].r_busy
        /\ \A i \in 1..Len(log) : \A j \in 1..Len(log) :
              i < j => (log[i].cmd = "a_go" /\ log[j].cmd = "r_go")
        /\ ((Running /\ Top.pc \in {"after_a", "after_r", "return"}) \/ result = "ok") =>
              /\ (\E i \in 1..Len(log) : log[i].cmd = "a_go") <=> cur.ang # 0
              /\ (\E i \in 1..Len(log) : log[i].cmd = "r_go") <=> cur.rad # 0
        /\ result = "ok" =>
              /\ a_seen /\ r_seen /\ polled
              /\ rem_a = 0 /\ rem_r = 0

C25_Witness ==
    /\ cur.api = "go_and_wait"
    /\ result = "ok"
    /\ Len(log) = 2
    /\ dev_r = 2400
    /\ dev_a = 590

(* C26: when homing failed, "Radial Switch Failed." has been printed       *)
(* exactly when the radial home command reported failure, and "Angular     *)
(* Switch Failed." exactly when the angular home command reported failure. *)
C26_NoticeNamesFailedAxis ==
    (home.pc \in {"input", "done"} /\ ~(home.r_status /\ home.a_status)) =>
        /\ "Radial Switch Failed." \in home.printed <=> ~home.r_status
        /\ "Angular Switch Failed." \in home.printed <=> ~home.a_status

====
